---- MODULE Spec2Model ----
(***************************************************************************)
(* A model of sundown: the DeviantArt client (client.py), the deviation    *)
(* URL codec (deviation.py) and the comment/page decoders (comment.py).    *)
(*                                                                         *)
(* Specifications:                                                         *)
(*   Spec      one caller using one Client, one call at a time             *)
(*   SpecConc  NumTasks callers whose query calls interleave at each get   *)
(*   SpecJSON  Page.from_json and Comment.from_json on raw JSON mappings   *)
(*   SpecURL   Deviation.from_url and Deviation.url on URL strings         *)
(*   SpecParse Deviation.from_url and URL.from_str on arbitrary strings    *)
(*   SpecBody  Body.text and Body.mentions on comment markups              *)
(*   SpecToken extract_token on pages of up to MaxInputs constructs        *)
(***************************************************************************)
EXTENDS Integers, Sequences, FiniteSets, TLC

VARIABLES
    token,      \* Client.token
    session,    \* state of Client.session: "open" or "closed"
    releases,   \* how many times the session went from open to closed
    phase,      \* "scope": inside the async-with body; "exited": __aexit__ ran
    exitExc,    \* exc_type handed to __aexit__ ("None" when the body completed)
    served,     \* what a GET of TOKEN_PAGE can answer in this behaviour
    calls,      \* per caller: the query/get call it is running
    fnIn,       \* pure-function specs: the argument handed to the function
    fnOut       \* pure-function specs: what the function returned or raised

client == <<token, session, releases, phase, exitExc, served, calls>>

pure == <<fnIn, fnOut>>

vars == <<client, pure>>

(***************************************************************************)
(* Bounds                                                                  *)
(***************************************************************************)
NumTasks == 2

Tasks == 1..NumTasks

(***************************************************************************)
(* client.py: constants                                                    *)
(***************************************************************************)
TOKEN_PAGE == "https://www.deviantart.com/users/login"

COMMENTS == "https://www.deviantart.com/_napi/shared_api/comments/thread"

\* The key under which query injects the token (client.py:153).
CSRF_KEY == "csrf_token"

Absent == "<absent>"

NoValue == "<no value attribute>"

\* Non-empty token values a bootstrap page can carry.
Tokens == {"T1", "T2"}

(***************************************************************************)
(* HTML as html.parser reads it: the sequence of the constructs of the     *)
(* page, <input> elements with a name and an optional value, or a marked   *)
(* section with an unknown keyword (<![x]>), on which the parser gives up. *)
(***************************************************************************)
Input(n, v) == [name |-> n, value |-> v]

BadSection == [name |-> "<![", value |-> NoValue]

\* The bootstrap pages the client model is run against.
BootPages ==
    { <<Input("csrf_token", "T1")>>,
      <<Input("csrf_token", "T2")>>,
      <<Input("username", "bob"), Input("csrf_token", "T1")>>,
      <<Input("csrf_token", "")>>,
      <<Input("csrf_token", NoValue)>>,
      <<Input("username", "T1")>>,
      <<BadSection>>,
      <<>> }

\* bs4.BeautifulSoup(html, features="html.parser"): the tree, or
\* ParserRejectedMarkup when html.parser fails an assertion on the markup.
BeautifulSoup(html) ==
    IF \E i \in 1..Len(html) : html[i] = BadSection
      THEN [raised |-> "ParserRejectedMarkup", soup |-> <<>>]
      ELSE [raised |-> "None", soup |-> html]

\* soup.find("input", attrs={"name": "csrf_token"}): the first match or None.
find(html, name) ==
    LET hits == {i \in 1..Len(html) : html[i].name = name}
    IN  IF hits = {} THEN 0
        ELSE CHOOSE i \in hits : \A j \in hits : i <= j

\* extract_token: the tree is built outside the try block, so a rejection
\* by the parser leaves as it is; inside it find(...)["value"] runs and any
\* exception becomes ValueError: None["value"] raises TypeError, a tag
\* without the attribute KeyError.
extract_token(html) ==
    LET soup == BeautifulSoup(html)
        i == find(soup.soup, CSRF_KEY)
    IN  IF soup.raised # "None"
          THEN [raised |-> soup.raised, cause |-> "None", value |-> ""]
        ELSE IF i = 0
          THEN [raised |-> "ValueError", cause |-> "TypeError", value |-> ""]
        ELSE IF html[i].value = NoValue
          THEN [raised |-> "ValueError", cause |-> "KeyError", value |-> ""]
        ELSE [raised |-> "None", cause |-> "None", value |-> html[i].value]

(***************************************************************************)
(* A response text, seen through the two parsers the client hands it to:   *)
(* the <input> elements bs4 finds in it, and whether json.loads accepts it *)
(***************************************************************************)
Text(inputs, isJson) == [inputs |-> inputs, json |-> isJson]

NoText == Text(<<>>, FALSE)

\* Bodies the API endpoint can answer with: a JSON object, or an error page.
ApiTexts == {Text(<<>>, TRUE), Text(<<>>, FALSE)}

\* json.loads(text): the parsed value, or json.decoder.JSONDecodeError.
json_loads(text) ==
    IF text.json THEN [raised |-> "None", value |-> text]
    ELSE [raised |-> "JSONDecodeError", value |-> NoText]

(***************************************************************************)
(* The transport (aiohttp.ClientSession.get + raise_for_status + text):    *)
(* either a 2xx response with its text, or one of aiohttp's exceptions.    *)
(***************************************************************************)
Ok(text) == [kind |-> "2xx", text |-> text]

Fail(cls) == [kind |-> cls, text |-> NoText]

\* ClientResponseError: raise_for_status on a non-2xx status.
\* ServerDisconnectedError, ServerTimeoutError: the server dropped or stalled.
\* ClientConnectorError: the connection could not be established at all.
TransportErrors ==
    {"ClientResponseError", "ServerDisconnectedError", "ServerTimeoutError",
     "ClientConnectorError"}

\* Direct base class of each aiohttp exception the except clauses of
\* Client.get are matched against.
Base(cls) ==
    CASE cls = "ClientResponseError" -> "ClientError"
      [] cls = "ClientConnectionError" -> "ClientError"
      [] cls = "ClientOSError" -> "ClientConnectionError"
      [] cls = "ClientConnectorError" -> "ClientOSError"
      [] cls = "ServerConnectionError" -> "ClientConnectionError"
      [] cls = "ServerDisconnectedError" -> "ServerConnectionError"
      [] cls = "ServerTimeoutError" -> "ServerConnectionError"
      [] OTHER -> "Exception"

RECURSIVE isinstance(_, _)
isinstance(cls, of) ==
    \/ cls = of
    \/ cls # "Exception" /\ isinstance(Base(cls), of)

\* Outcome of a call: kind "return" with a value, or the exception raised
\* (kind) with the exception it is chained to (cause).
Returned(v) == [kind |-> "return", cause |-> "None", value |-> v]

Raised(cls, cause) == [kind |-> cls, cause |-> cause, value |-> NoText]

NoResult == [kind |-> "none", cause |-> "None", value |-> NoText]

\* Client.get: the text on success; ClientResponseError and
\* ServerConnectionError instances are wrapped; anything else propagates.
get(o) ==
    IF o.kind = "2xx" THEN Returned(o.text)
    ELSE IF isinstance(o.kind, "ClientResponseError")
      THEN Raised("ServerResponseError", o.kind)
    ELSE IF isinstance(o.kind, "ServerConnectionError")
      THEN Raised("ServerConnectionError", o.kind)
    ELSE Raised(o.kind, "None")

\* A client that never considers itself authenticated.
authenticatedNever(tok) == FALSE

\* Client.authenticated
authenticated(tok) == tok # ""

\* Client.close / ClientSession.close: closing a closed session is a no-op.
close(s) == "closed"

\* An __aexit__ that closes only when the body completed.
aexitOnSuccess(s, exc_type) == IF exc_type = "None" THEN close(s) ELSE s

\* __aexit__: closes whatever exception (if any) left the body.
aexit(s, exc_type) == close(s)

(***************************************************************************)
(* Calls                                                                   *)
(***************************************************************************)
\* The params mappings callers pass to query.
CallerParams ==
    { [csrf_token |-> Absent, itemid |-> "7"],
      [csrf_token |-> "stale", itemid |-> "7"] }

NoParams == [csrf_token |-> Absent, itemid |-> Absent]

\* params.setdefault("csrf_token", self.token)
injectDefault(params, tok) ==
    IF params.csrf_token = Absent THEN [params EXCEPT !.csrf_token = tok]
    ELSE params

\* An injection that builds the request params anew from the token alone.
injectOnly(params, tok) == [csrf_token |-> tok, itemid |-> Absent]

\* params["csrf_token"] = self.token
inject(params, tok) == [params EXCEPT !.csrf_token = tok]

Req(url, params) == [url |-> url, params |-> params]

\* params is the caller's mapping as it stands, given what it held when the
\* caller passed it in.
Idle ==
    [op |-> "none", pc |-> "idle", params |-> NoParams, given |-> NoParams,
     reqs |-> <<>>,
     fetched |-> FALSE, html |-> <<>>, outcome |-> "none", result |-> NoResult]

\* self.get(url, params=params) as far as its first suspension; reqs logs
\* the GET. A closed session refuses it at once (RuntimeError), an open
\* one sends it and the call waits for the answer.
send(call, url, params, pc) ==
    IF session = "closed"
      THEN [call EXCEPT !.pc = "done",
                        !.reqs = Append(@, Req(url, params)),
                        !.outcome = "RuntimeError",
                        !.result = get(Fail("RuntimeError"))]
      ELSE [call EXCEPT !.pc = pc,
                        !.reqs = Append(@, Req(url, params))]

\* The body of query up to the endpoint request (client.py:153-155): the
\* token is written into the caller's params, which go out with the GET.
query(call, tok) ==
    LET params == inject(call.params, tok)
    IN  send([call EXCEPT !.params = params], COMMENTS, params, "api")

\* What the wrapper does with the bootstrap page once get returned it
\* (client.py:63-67): the token to store and the exception to raise.
wrapper(html) ==
    LET e == extract_token(html)
    IN  IF e.raised = "ValueError"
          THEN [raised |-> "Error", cause |-> "ValueError", token |-> ""]
        ELSE IF e.raised # "None"
          THEN [raised |-> e.raised, cause |-> e.cause, token |-> ""]
          ELSE [raised |-> "None", cause |-> "None", token |-> e.value]

\* A caller starts query(endpoint, p): the wrapper runs up to its first
\* suspension, the bootstrap GET when unauthenticated, else the endpoint GET.
StartQuery(c, p) ==
    /\ phase = "scope"
    /\ calls[c].pc = "idle"
    /\ LET call == [Idle EXCEPT !.op = "query", !.params = p, !.given = p]
       IN  calls' = [calls EXCEPT ![c] =
                IF ~authenticated(token)
                  THEN send(call, TOKEN_PAGE, NoParams, "boot")
                  ELSE query(call, token)]
    /\ UNCHANGED pure
    /\ UNCHANGED <<token, session, releases, phase, exitExc, served>>

\* The bootstrap GET completes; on a page, the token is extracted and
\* stored and the decorated query runs up to its endpoint GET.
BootResponse(c) ==
    /\ calls[c].pc = "boot"
    /\ \E o \in served :
         LET r == get(o)
             call == [calls[c] EXCEPT !.outcome = o.kind]
         IN  IF r.kind # "return"
               THEN /\ calls' = [calls EXCEPT ![c] =
                           [call EXCEPT !.pc = "done", !.result = r]]
                    /\ token' = token
               ELSE LET w == wrapper(r.value.inputs)
                        got == [call EXCEPT !.fetched = TRUE,
                                            !.html = r.value.inputs]
                    IN  IF w.raised # "None"
                          THEN /\ calls' = [calls EXCEPT ![c] =
                                     [got EXCEPT !.pc = "done",
                                        !.result = Raised(w.raised, w.cause)]]
                               /\ token' = token
                          ELSE /\ token' = w.token
                               /\ calls' = [calls EXCEPT ![c] =
                                               query(got, w.token)]
    /\ UNCHANGED pure
    /\ UNCHANGED <<session, releases, phase, exitExc, served>>

\* The endpoint GET completes and its text is parsed as JSON.
ApiResponse(c) ==
    /\ calls[c].pc = "api"
    /\ \E o \in {Ok(t) : t \in ApiTexts} \cup {Fail(k) : k \in TransportErrors} :
         LET r == get(o)
             j == json_loads(r.value)
         IN  calls' = [calls EXCEPT ![c] =
                [@ EXCEPT !.pc = "done", !.outcome = o.kind,
                   !.result = IF r.kind # "return" THEN r
                              ELSE IF j.raised = "JSONDecodeError"
                                THEN Raised("BadJSONError", j.raised)
                              ELSE Returned(j.value)]]
    /\ UNCHANGED pure
    /\ UNCHANGED <<token, session, releases, phase, exitExc, served>>

\* A caller calls get(url) directly.
StartGet(c, url) ==
    /\ phase = "scope"
    /\ calls[c].pc = "idle"
    /\ calls' = [calls EXCEPT ![c] =
          send([Idle EXCEPT !.op = "get"], url, NoParams, "get")]
    /\ UNCHANGED pure
    /\ UNCHANGED <<token, session, releases, phase, exitExc, served>>

GetResponse(c) ==
    /\ calls[c].pc = "get"
    /\ \E o \in {Ok(t) : t \in ApiTexts} \cup {Fail(k) : k \in TransportErrors} :
         calls' = [calls EXCEPT ![c] =
            [@ EXCEPT !.pc = "done", !.outcome = o.kind, !.result = get(o)]]
    /\ UNCHANGED pure
    /\ UNCHANGED <<token, session, releases, phase, exitExc, served>>

\* The caller takes the call's result (or catches its exception).
Return(c) ==
    /\ calls[c].pc = "done"
    /\ calls' = [calls EXCEPT ![c] = Idle]
    /\ UNCHANGED pure
    /\ UNCHANGED <<token, session, releases, phase, exitExc, served>>

\* The caller calls Client.close() itself.
Close ==
    /\ \A c \in Tasks : calls[c].pc \in {"idle", "done"}
    /\ session' = close(session)
    /\ releases' = releases + (IF session = "open" /\ session' = "closed" THEN 1 ELSE 0)
    /\ UNCHANGED pure
    /\ UNCHANGED <<token, phase, exitExc, served, calls>>

\* Control leaves the async-with body: normally ("None"), or with the
\* exception of a call that raised.
AExit(exc_type) ==
    /\ phase = "scope"
    /\ \A c \in Tasks : calls[c].pc \in {"idle", "done"}
    /\ phase' = "exited"
    /\ exitExc' = exc_type
    /\ session' = aexit(session, exc_type)
    /\ releases' = releases + (IF session = "open" /\ session' = "closed" THEN 1 ELSE 0)
    /\ UNCHANGED pure
    /\ UNCHANGED <<token, served, calls>>

RaisedBy(c) ==
    IF calls[c].pc = "done" /\ calls[c].result.kind # "return"
      THEN {calls[c].result.kind} ELSE {}

(***************************************************************************)
(* Spec: one caller, one call at a time, any bootstrap answer.             *)
(***************************************************************************)
AnyBootstrap ==
    {Ok(Text(p, FALSE)) : p \in BootPages} \cup {Fail(k) : k \in TransportErrors}

\* Client.__init__
Init ==
    /\ token = ""
    /\ session = "open"
    /\ releases = 0
    /\ phase = "scope"
    /\ exitExc = "None"
    /\ served = AnyBootstrap
    /\ calls = [c \in Tasks |-> Idle]
    /\ fnIn = <<>>
    /\ fnOut = <<>>

Next ==
    \/ \E p \in CallerParams : StartQuery(1, p)
    \/ BootResponse(1)
    \/ ApiResponse(1)
    \/ \E url \in {TOKEN_PAGE, COMMENTS} : StartGet(1, url)
    \/ GetResponse(1)
    \/ Return(1)
    \/ Close
    \/ \E e \in {"None"} \cup RaisedBy(1) : AExit(e)

Spec == Init /\ [][Next]_vars

(***************************************************************************)
(* SpecConc: NumTasks callers on one unauthenticated client; every fetch   *)
(* of the bootstrap page succeeds and carries the same token.              *)
(***************************************************************************)
Yielding(T) ==
    {Ok(Text(p, FALSE)) : p \in {q \in BootPages :
        extract_token(q).raised = "None" /\ extract_token(q).value = T}}

InitConc ==
    /\ token = ""
    /\ session = "open"
    /\ releases = 0
    /\ phase = "scope"
    /\ exitExc = "None"
    /\ served \in {Yielding(T) : T \in Tokens \cup {""}}
    /\ calls = [c \in Tasks |-> Idle]
    /\ fnIn = <<>>
    /\ fnOut = <<>>

NextConc ==
    \/ \E c \in Tasks, p \in CallerParams : StartQuery(c, p)
    \/ \E c \in Tasks : BootResponse(c)
    \/ \E c \in Tasks : ApiResponse(c)
    \/ \E c \in Tasks : Return(c)

SpecConc == InitConc /\ [][NextConc]_vars

(***************************************************************************)
(* Claims about the client                                                 *)
(***************************************************************************)
Fetches(call, url) == {i \in 1..Len(call.reqs) : call.reqs[i].url = url}

\* C1: a new Client is not authenticated (Init: token = ""), and whenever a
\* query call has returned without raising, the client is authenticated,
\* whatever token extract_token returned from the bootstrap page.
C1_AuthenticatedAfterQuery ==
    \A c \in Tasks :
        calls[c].op = "query" /\ calls[c].pc = "done"
            /\ calls[c].result.kind = "return"
        => authenticated(token)

\* C2: a query call started while the token is empty starts with a GET of
\* the bootstrap page; once the token is non-empty no step of any later
\* call changes it or issues another GET of the bootstrap page.
C2_NoReauthentication ==
    [][\A c \in Tasks :
         /\ (calls[c].pc = "idle" /\ calls'[c].op = "query" /\ token = "")
               => /\ Len(calls'[c].reqs) = 1
                  /\ calls'[c].reqs[1].url = TOKEN_PAGE
         /\ (calls'[c].op = "query" /\ token # "")
               => /\ token' = token
                  /\ Fetches(calls'[c], TOKEN_PAGE) \subseteq Fetches(calls[c], TOKEN_PAGE)
      ]_vars

\* C2 witness: an authenticated client whose later query call failed on the
\* endpoint request, without any bootstrap fetch in that call.
C2_Witness ==
    \E c \in Tasks :
        /\ token # ""
        /\ calls[c].op = "query" /\ calls[c].pc = "done"
        /\ calls[c].result.kind = "ServerResponseError"
        /\ Fetches(calls[c], TOKEN_PAGE) = {}
        /\ Fetches(calls[c], COMMENTS) # {}

\* C3: a query call that fetched the bootstrap page and could extract no
\* token from it raised the generic Error chained to the ValueError, left
\* the token empty and issued no endpoint request.
C3_ExtractionFailure ==
    \A c \in Tasks :
        calls[c].op = "query" /\ calls[c].pc = "done" /\ calls[c].fetched
            /\ extract_token(calls[c].html).raised # "None"
        => /\ calls[c].result.kind = "Error"
           /\ calls[c].result.cause = "ValueError"
           /\ token = ""
           /\ Fetches(calls[c], COMMENTS) = {}

\* Connection-level failures of the transport.
ConnectionFailures ==
    {"ServerDisconnectedError", "ServerTimeoutError", "ClientConnectorError"}

\* C4: for every outcome of the transport GET, get returns the text on 2xx,
\* raises ServerResponseError on a non-2xx status and ServerConnectionError
\* on every connection-level failure; nothing else comes out of get.
C4_GetClassifiesEveryOutcome ==
    \A c \in Tasks :
        calls[c].op = "get" /\ calls[c].pc = "done"
            /\ calls[c].outcome \in {"2xx"} \cup TransportErrors
        => /\ calls[c].outcome = "2xx" => calls[c].result.kind = "return"
           /\ calls[c].outcome = "ClientResponseError"
                 => calls[c].result.kind = "ServerResponseError"
           /\ calls[c].outcome \in ConnectionFailures
                 => calls[c].result.kind = "ServerConnectionError"
           /\ calls[c].result.kind \in
                 {"return", "ServerResponseError", "ServerConnectionError"}

\* The token every bootstrap fetch of this behaviour yields.
ServedToken == (CHOOSE o \in served : TRUE).text.inputs[
                    find((CHOOSE o \in served : TRUE).text.inputs, CSRF_KEY)].value

\* C5: when every bootstrap fetch yields the same token T, every endpoint
\* request of every concurrent call carries csrf_token = T, the client's
\* token is never anything but empty or T, and it is T once all calls are
\* complete.
C5_ConcurrentSameToken ==
    ServedToken # ""
    => /\ token \in {"", ServedToken}
       /\ \A c \in Tasks : \A i \in Fetches(calls[c], COMMENTS) :
             calls[c].reqs[i].params.csrf_token = ServedToken
       /\ (\A c \in Tasks : calls[c].pc = "done") => token = ServedToken

\* C5 witness: two calls raced, each fetched the bootstrap page, and all
\* calls are complete.
C5_Witness ==
    /\ ServedToken # ""
    /\ \A c \in Tasks : calls[c].pc = "done"
    /\ Cardinality({c \in Tasks : Fetches(calls[c], TOKEN_PAGE) # {}}) >= 2
    /\ \E c \in Tasks : calls[c].result.kind = "BadJSONError"

\* C6: the session is released exactly once: after leaving the async-with
\* scope it is closed, whether the body completed or raised, and it is
\* never released more than once nor open after teardown.
C6_SessionReleasedOnce ==
    /\ releases <= 1
    /\ session = "closed" <=> releases = 1
    /\ phase = "exited" => session = "closed" /\ releases = 1

\* C6 witness: the body was left by a query that raised, and the session is
\* closed.
C6_Witness ==
    /\ phase = "exited"
    /\ exitExc = "ServerConnectionError"
    /\ session = "closed"

\* C15: every step of a query call that issues an endpoint request sends
\* the caller's params mapping itself, with csrf_token set to the client's
\* token at that moment, whatever csrf_token the caller had put there, and
\* with every other key as the caller supplied it.
C15_TokenInjectedInPlace ==
    [][\A c \in Tasks :
         (/\ calls'[c].op = "query"
          /\ Len(calls'[c].reqs) = Len(calls[c].reqs) + 1
          /\ calls'[c].reqs[Len(calls'[c].reqs)].url = COMMENTS)
         => LET sent == calls'[c].reqs[Len(calls'[c].reqs)].params
            IN  /\ sent.csrf_token = token'
                /\ sent.itemid = calls'[c].given.itemid
                /\ calls'[c].params = sent
      ]_vars

\* C15 witness: the caller supplied its own csrf_token and an item id; the
\* endpoint request went out with the client's token and the item id.
C15_Witness ==
    \E c \in Tasks :
        /\ calls[c].op = "query" /\ calls[c].pc = "api"
        /\ calls[c].given = [csrf_token |-> "stale", itemid |-> "7"]
        /\ token \in Tokens
        /\ calls[c].reqs[Len(calls[c].reqs)] =
              Req(COMMENTS, [csrf_token |-> token, itemid |-> "7"])

(***************************************************************************)
(* comment.py / deviation.py: decoding raw JSON mappings                   *)
(*                                                                         *)
(* A raw comment is a record with one field per key the decoder reads; a   *)
(* key the mapping lacks holds Absent, a JSON null holds Null.  markup and *)
(* features stand for textContent.html.markup / .features.                 *)
(***************************************************************************)
MaxThread == 2

Null == "null"

Timestamp == "2024-05-01T10:00:00-0800"

\* A "user" mapping that lacks the "username" key.
NoUsername == "<user without username>"

MarkupText == "{\"document\": {\"content\": []}}"

FeaturesText == "[{\"type\": \"WORD_COUNT_FEATURE\", \"data\": {\"words\": 3}}]"

\* Valid JSON, but a feature record without its "data" key.
FeaturesNoData == "[{\"type\": \"WORD_COUNT_FEATURE\"}]"

NotJSON == "{\"document\": "

\* json.loads on the strings above: the parsed value or JSONDecodeError.
loads(str) ==
    CASE str = MarkupText ->
            [raised |-> "None", value |-> [document |-> [content |-> <<>>]]]
      [] str = FeaturesText ->
            [raised |-> "None",
             value |-> <<[type |-> "WORD_COUNT_FEATURE", data |-> "words: 3"]>>]
      [] str = FeaturesNoData ->
            [raised |-> "None",
             value |-> <<[type |-> "WORD_COUNT_FEATURE", data |-> Absent]>>]
      [] OTHER -> [raised |-> "JSONDecodeError", value |-> <<>>]

\* datetime.fromisoformat
fromisoformat(str) == IF str = Timestamp THEN "None" ELSE "ValueError"

\* Kind(value): lookup of an enum member by value; ART = JOURNAL = "1".
Kind(value) ==
    IF value = "1" THEN [raised |-> "None", member |-> "ART"]
    ELSE [raised |-> "ValueError", member |-> ""]

\* data[key]
getitem(v) == IF v = Absent THEN "KeyError" ELSE "None"

\* The exception of the first step that raises, "None" when none does.
FirstRaised(steps) ==
    LET bad == {i \in 1..Len(steps) : steps[i] # "None"}
    IN  IF bad = {} THEN "None"
        ELSE steps[CHOOSE i \in bad : \A j \in bad : i <= j]

ValidComment ==
    [commentId |-> "7", typeId |-> "1", itemId |-> "12345", parentId |-> Null,
     user |-> "bob", posted |-> Timestamp, edited |-> Null, replies |-> "0",
     markup |-> MarkupText, features |-> FeaturesText]

\* The valid record and every record that differs from it in one key.
CommentInputs ==
    {ValidComment}
    \cup {[ValidComment EXCEPT !.commentId = Absent]}
    \cup {[ValidComment EXCEPT !.typeId = v] : v \in {Absent, "2"}}
    \cup {[ValidComment EXCEPT !.itemId = Absent]}
    \cup {[ValidComment EXCEPT !.parentId = v] : v \in {Absent, "5"}}
    \cup {[ValidComment EXCEPT !.user = v] : v \in {Absent, NoUsername}}
    \cup {[ValidComment EXCEPT !.posted = v] : v \in {Absent, "yesterday"}}
    \cup {[ValidComment EXCEPT !.edited = v] : v \in {Absent, Timestamp, "yesterday"}}
    \cup {[ValidComment EXCEPT !.replies = Absent]}
    \cup {[ValidComment EXCEPT !.markup = v] : v \in {Absent, NotJSON}}
    \cup {[ValidComment EXCEPT !.features = v] : v \in {Absent, NotJSON, FeaturesNoData}}

\* Comment._assemble_metadata: the reads in evaluation order; KeyError is
\* the only exception the try block catches.
Comment_assemble_metadata(data) ==
    LET e == FirstRaised(<<
                getitem(data.commentId),
                getitem(data.typeId),
                Kind(data.typeId).raised,
                getitem(data.itemId),
                getitem(data.parentId),
                getitem(data.user),
                IF data.user = NoUsername THEN "KeyError" ELSE "None",
                getitem(data.posted),
                fromisoformat(data.posted),
                getitem(data.edited),
                IF data.edited = Null THEN "None" ELSE fromisoformat(data.edited),
                getitem(data.replies) >>)
    IN  IF e = "KeyError"
          THEN [raised |-> "CommentJSONError", cause |-> "KeyError", value |-> <<>>]
        ELSE IF e # "None"
          THEN [raised |-> e, cause |-> "None", value |-> <<>>]
        ELSE [raised |-> "None", cause |-> "None",
              value |-> [id |-> data.commentId,
                         deviation |-> [kind |-> Kind(data.typeId).member,
                                        id |-> data.itemId],
                         parent_id |-> IF data.parentId = Null THEN "None"
                                       ELSE data.parentId,
                         author |-> data.user,
                         posted |-> data.posted,
                         edited |-> IF data.edited = Null THEN "None"
                                    ELSE data.edited,
                         replies |-> data.replies]]

\* Body.__post_init__: {f["type"]: f["data"] for f in self.features}
Body_post_init(feats) ==
    FirstRaised([i \in 1..Len(feats) |->
                    IF feats[i].type = Absent \/ feats[i].data = Absent
                      THEN "KeyError" ELSE "None"])

\* Comment._assemble_body: the try block covers the two lookups and the two
\* json.loads and catches KeyError; Body(...) is built after it.
Comment_assemble_body(data) ==
    LET e == FirstRaised(<<
                getitem(data.markup),
                loads(data.markup).raised,
                getitem(data.features),
                loads(data.features).raised >>)
    IN  IF e = "KeyError"
          THEN [raised |-> "CommentJSONError", cause |-> "KeyError", value |-> <<>>]
        ELSE IF e # "None"
          THEN [raised |-> e, cause |-> "None", value |-> <<>>]
        ELSE IF Body_post_init(loads(data.features).value) # "None"
          THEN [raised |-> Body_post_init(loads(data.features).value),
                cause |-> "None", value |-> <<>>]
        ELSE [raised |-> "None", cause |-> "None",
              value |-> [markup |-> loads(data.markup).value,
                         features |-> loads(data.features).value]]

\* Comment.from_json: cls(_assemble_metadata(data), _assemble_body(data))
Comment_from_json(data) ==
    LET m == Comment_assemble_metadata(data)
        b == Comment_assemble_body(data)
    IN  IF m.raised # "None" THEN m
        ELSE IF b.raised # "None" THEN b
        ELSE [raised |-> "None", cause |-> "None",
              value |-> [metadata |-> m.value, body |-> b.value]]

\* A raw page: the four metadata keys, and the thread when hasThread.
PageMeta ==
    [hasMore |-> "true", hasLess |-> "false", nextOffset |-> "10",
     prevOffset |-> Null]

RECURSIVE SeqsUpTo(_, _)
SeqsUpTo(S, n) ==
    IF n = 0 THEN {<<>>}
    ELSE SeqsUpTo(S, n - 1) \cup
         {Append(q, x) : q \in {r \in SeqsUpTo(S, n - 1) : Len(r) = n - 1}, x \in S}

PageInputs ==
    { [meta |-> m, hasThread |-> h, thread |-> t] :
        m \in {PageMeta}
              \cup {[PageMeta EXCEPT !.hasMore = Absent]}
              \cup {[PageMeta EXCEPT !.hasLess = Absent]}
              \cup {[PageMeta EXCEPT !.nextOffset = Absent]}
              \cup {[PageMeta EXCEPT !.prevOffset = Absent]},
        h \in BOOLEAN,
        t \in SeqsUpTo(CommentInputs, MaxThread) }

\* Page.from_json
Page_from_json(data) ==
    LET e == FirstRaised(<<
                getitem(data.meta.hasMore), getitem(data.meta.hasLess),
                getitem(data.meta.nextOffset), getitem(data.meta.prevOffset) >>)
        cs == [i \in 1..Len(data.thread) |-> Comment_from_json(data.thread[i])]
        c == FirstRaised([i \in 1..Len(data.thread) |-> cs[i].raised])
    IN  IF e = "KeyError"
          THEN [raised |-> "PageJSONError", cause |-> "KeyError", value |-> <<>>]
        ELSE IF ~data.hasThread
          THEN [raised |-> "KeyError", cause |-> "None", value |-> <<>>]
        ELSE IF c = "CommentJSONError"
          THEN [raised |-> "PageJSONError", cause |-> "CommentJSONError",
                value |-> <<>>]
        ELSE IF c # "None"
          THEN [raised |-> c, cause |-> "None", value |-> <<>>]
        ELSE [raised |-> "None", cause |-> "None",
              value |-> [has_more |-> data.meta.hasMore,
                         has_less |-> data.meta.hasLess,
                         next_offset |-> data.meta.nextOffset,
                         prev_offset |-> data.meta.prevOffset,
                         comments |-> [i \in 1..Len(cs) |-> cs[i].value]]]

(***************************************************************************)
(* SpecJSON: a raw page is decoded as a whole, or one of its records alone *)
(***************************************************************************)
InitJSON ==
    /\ token = ""
    /\ session = "open"
    /\ releases = 0
    /\ phase = "scope"
    /\ exitExc = "None"
    /\ served = {}
    /\ calls = [c \in Tasks |-> Idle]
    /\ fnIn \in {d \in PageInputs : d.hasThread \/ d.thread = <<>>}
    /\ fnOut = [op |-> "none"]

PageFromJson ==
    /\ fnOut.op = "none"
    /\ fnOut' = [op |-> "Page.from_json", res |-> Page_from_json(fnIn)]
    /\ UNCHANGED <<client, fnIn>>

CommentFromJson(i) ==
    /\ fnOut.op = "none"
    /\ fnOut' = [op |-> "Comment.from_json", arg |-> fnIn.thread[i],
                 res |-> Comment_from_json(fnIn.thread[i])]
    /\ UNCHANGED <<client, fnIn>>

NextJSON ==
    \/ PageFromJson
    \/ \E i \in 1..Len(fnIn.thread) : CommentFromJson(i)

SpecJSON == InitJSON /\ [][NextJSON]_vars

(***************************************************************************)
(* Claims about the decoders                                               *)
(***************************************************************************)
\* C7: a page with valid metadata whose thread holds a record that fails to
\* decode, for whatever reason, makes Page.from_json raise PageJSONError
\* chained to the comment's failure; no partial Page is returned.
C7_PageAllOrNothing ==
    (/\ fnOut.op = "Page.from_json"
     /\ \A k \in DOMAIN fnIn.meta : fnIn.meta[k] # Absent
     /\ fnIn.hasThread
     /\ \E i \in 1..Len(fnIn.thread) : Comment_from_json(fnIn.thread[i]).raised # "None")
    => /\ fnOut.res.raised = "PageJSONError"
       /\ fnOut.res.cause = "CommentJSONError"

\* A record lacks one of the keys the claim lists, or carries a markup or
\* features string that is not JSON.
MissingKey(data) == \E k \in DOMAIN data : data[k] \in {Absent, NoUsername}

BadInnerJSON(data) ==
    \/ data.markup # Absent /\ loads(data.markup).raised # "None"
    \/ data.features # Absent /\ loads(data.features).raised # "None"

\* C8: Comment.from_json returns a Comment with both halves decoded or
\* raises CommentJSONError; a missing key, and a markup or features string
\* that is not valid JSON, each raise CommentJSONError and nothing else.
C8_CommentErrorKind ==
    fnOut.op = "Comment.from_json"
    => /\ fnOut.res.raised \in {"None", "CommentJSONError"}
       /\ (MissingKey(fnOut.arg) \/ BadInnerJSON(fnOut.arg))
             => fnOut.res.raised = "CommentJSONError"

\* C9: Page.from_json returns a Page or raises PageJSONError; a missing
\* metadata key raises PageJSONError, and so does every other structural
\* failure of the page, such as a missing thread key.
C9_PageErrorKind ==
    fnOut.op = "Page.from_json"
    => /\ fnOut.res.raised \in {"None", "PageJSONError"}
       /\ (\E k \in DOMAIN fnIn.meta : fnIn.meta[k] = Absent)
             => fnOut.res.raised = "PageJSONError"
       /\ ~fnIn.hasThread => fnOut.res.raised = "PageJSONError"

(***************************************************************************)
(* deviation.py: deviation URLs                                            *)
(*                                                                         *)
(* A string is the sequence of its characters.                             *)
(***************************************************************************)
MaxHandle == 2

MaxPrefix == 2

MaxId == 1

LowerCase ==
    <<"a", "b", "c", "d", "e", "f", "g", "h", "i", "j", "k", "l", "m",
      "n", "o", "p", "q", "r", "s", "t", "u", "v", "w", "x", "y", "z">>

UpperCase ==
    <<"A", "B", "C", "D", "E", "F", "G", "H", "I", "J", "K", "L", "M",
      "N", "O", "P", "Q", "R", "S", "T", "U", "V", "W", "X", "Y", "Z">>

Digits == {"0", "1", "2", "3", "4", "5", "6", "7", "8", "9"}

Range(f) == {f[i] : i \in DOMAIN f}

IndexOf(ch, alphabet) == CHOOSE i \in DOMAIN alphabet : alphabet[i] = ch

\* str.lower / str.upper
lower(str) ==
    [i \in 1..Len(str) |->
        IF str[i] \in Range(UpperCase)
          THEN LowerCase[IndexOf(str[i], UpperCase)] ELSE str[i]]

upper(str) ==
    [i \in 1..Len(str) |->
        IF str[i] \in Range(LowerCase)
          THEN UpperCase[IndexOf(str[i], LowerCase)] ELSE str[i]]

\* "/".join(parts)
RECURSIVE join(_)
join(parts) ==
    IF Len(parts) = 0 THEN <<>>
    ELSE IF Len(parts) = 1 THEN parts[1]
    ELSE parts[1] \o <<"/">> \o join(Tail(parts))

Host ==
    <<"w", "w", "w", ".", "d", "e", "v", "i", "a", "n", "t", "a", "r", "t",
      ".", "c", "o", "m">>

Scheme == <<"h", "t", "t", "p", "s", ":">>

\* The character classes of URL_PATTERN.
ArtistClass == Range(LowerCase) \cup Range(UpperCase) \cup Digits \cup {"-"}

KindClass == Range(LowerCase) \cup {"-"}

\* The end of the longest run of characters of class starting at p
\* (p - 1 when str[p] is not in the class).
RunEnd(str, p, class) ==
    LET ends == {e \in (p - 1)..Len(str) : \A i \in p..e : str[i] \in class}
    IN  CHOOSE e \in ends : \A f \in ends : f <= e

\* URL_PATTERN matched at position i: the three groups, or no match.
\* A class+ followed by "/" can only stop at the end of its run; (?:.+-)?
\* is greedy, so it ends at the last "-" that has no newline before it and
\* a digit after it; (\d+) then takes the whole run of digits.
MatchAt(str, i) ==
    LET n == Len(str)
        h == Len(Host)
        a1 == i + h + 1
        a2 == RunEnd(str, a1, ArtistClass)
        k1 == a2 + 2
        k2 == RunEnd(str, k1, KindClass)
        p == k2 + 2
        dashes == {d \in (p + 1)..(n - 1) :
                      /\ str[d] = "-"
                      /\ \A j \in p..(d - 1) : str[j] # "\n"
                      /\ str[d + 1] \in Digits}
        d0 == IF dashes = {} THEN p
              ELSE 1 + CHOOSE d \in dashes : \A e \in dashes : e <= d
        d1 == RunEnd(str, d0, Digits)
    IN  IF /\ i + h <= n
           /\ SubSeq(str, i, i + h - 1) = Host
           /\ str[i + h] = "/"
           /\ a2 >= a1 /\ a2 + 1 <= n /\ str[a2 + 1] = "/"
           /\ k2 >= k1 /\ k2 + 1 <= n /\ str[k2 + 1] = "/"
           /\ d0 <= n /\ d1 >= d0
          THEN [matched |-> TRUE,
                groups |-> <<SubSeq(str, a1, a2), SubSeq(str, k1, k2),
                             SubSeq(str, d0, d1)>>]
          ELSE [matched |-> FALSE, groups |-> <<>>]

\* URL_PATTERN.search(url): the leftmost match.
search(str) ==
    LET hits == {i \in 1..Len(str) : MatchAt(str, i).matched}
    IN  IF hits = {} THEN [matched |-> FALSE, groups |-> <<>>]
        ELSE MatchAt(str, CHOOSE i \in hits : \A j \in hits : i <= j)

\* Kind[name]: lookup of an enum member by name; JOURNAL is an alias of ART.
KindByName(name) ==
    IF name \in {<<"A", "R", "T">>, <<"J", "O", "U", "R", "N", "A", "L">>}
      THEN [raised |-> "None", member |-> "ART"]
      ELSE [raised |-> "KeyError", member |-> ""]

\* Kind.name
KindName(member) == <<"A", "R", "T">>

\* Kind.value (the member itself, as a string)
KindValue(member) == <<"1">>

NoDeviation == [artist |-> <<>>, kind |-> "", id |-> <<>>]

\* A from_url that reports an unknown kind as an invalid URL.
Deviation_from_url_onetier(url) ==
    LET m == search(url)
        k == KindByName(upper(m.groups[2]))
    IN  IF ~m.matched \/ k.raised = "KeyError"
          THEN [raised |-> "ValueError", cause |-> "AttributeError",
                value |-> NoDeviation]
        ELSE [raised |-> "None", cause |-> "None",
              value |-> [artist |-> m.groups[1], kind |-> k.member,
                         id |-> m.groups[3]]]

\* Deviation.from_url
Deviation_from_url(url) ==
    LET m == search(url)
        k == KindByName(upper(m.groups[2]))
    IN  IF ~m.matched
          THEN [raised |-> "ValueError", cause |-> "AttributeError",
                value |-> NoDeviation]
        ELSE IF k.raised = "KeyError"
          THEN [raised |-> "NotImplementedError", cause |-> "KeyError",
                value |-> NoDeviation]
        ELSE [raised |-> "None", cause |-> "None",
              value |-> [artist |-> m.groups[1], kind |-> k.member,
                         id |-> m.groups[3]]]

\* A url property that writes the kind itself, not its lower-cased name.
Deviation_url_value(d) ==
    join(<<Scheme \o <<"/", "/">> \o Host, lower(d.artist), KindValue(d.kind), d.id>>)

\* Deviation.url
Deviation_url(d) ==
    join(<<Scheme \o <<"/", "/">> \o Host, lower(d.artist),
           lower(KindName(d.kind)), d.id>>)

(***************************************************************************)
(* SpecURL: a deviation URL is parsed, formatted back and parsed again.    *)
(***************************************************************************)
\* Handles: letters, digits and hyphens, no hyphen first or last.
Handles ==
    {a \in SeqsUpTo({"B", "o", "-"}, MaxHandle) :
        Len(a) >= 1 /\ a[1] # "-" /\ a[Len(a)] # "-"}

Labels == {<<"a", "r", "t">>, <<"j", "o", "u", "r", "n", "a", "l">>}

Prefixes == {a \in SeqsUpTo({"x", "5", "-"}, MaxPrefix) : Len(a) >= 1}

Ids == {a \in SeqsUpTo({"0", "4"}, MaxId) : Len(a) >= 1}

\* "www.deviantart.com/<artist>/<label>/[<prefix>-]<id>"
DeviationUrl(artist, label, prefix, id) ==
    join(<<Host, artist, label,
           IF prefix = <<>> THEN id ELSE prefix \o <<"-">> \o id>>)

InitURL ==
    /\ token = ""
    /\ session = "open"
    /\ releases = 0
    /\ phase = "scope"
    /\ exitExc = "None"
    /\ served = {}
    /\ calls = [c \in Tasks |-> Idle]
    /\ fnIn \in {[artist |-> a, label |-> l, prefix |-> x, id |-> n,
                  url |-> DeviationUrl(a, l, x, n)] :
                    a \in Handles, l \in Labels,
                    x \in Prefixes \cup {<<>>}, n \in Ids}
    /\ fnOut = [op |-> "none"]

FromUrl ==
    /\ fnOut.op = "none"
    /\ fnOut' = [op |-> "from_url", res |-> Deviation_from_url(fnIn.url)]
    /\ UNCHANGED <<client, fnIn>>

\* The Deviation's url is formatted and parsed again.
Reparse ==
    /\ fnOut.op = "from_url"
    /\ fnOut.res.raised = "None"
    /\ fnOut' = [op |-> "reparse", first |-> fnOut.res.value,
                 url |-> Deviation_url(fnOut.res.value),
                 res |-> Deviation_from_url(Deviation_url(fnOut.res.value))]
    /\ UNCHANGED <<client, fnIn>>

NextURL ==
    \/ FromUrl
    \/ Reparse

SpecURL == InitURL /\ [][NextURL]_vars

\* C10: from_url succeeds on every valid deviation URL, dropping the
\* prefix label; parsing the url of the resulting Deviation again succeeds
\* with the same artist up to case, the same kind (ART for both labels) and
\* the same id.
C10_DeviationRoundTrip ==
    /\ fnOut.op = "from_url"
          => /\ fnOut.res.raised = "None"
             /\ fnOut.res.value.artist = fnIn.artist
             /\ fnOut.res.value.kind = "ART"
             /\ fnOut.res.value.id = fnIn.id
    /\ fnOut.op = "reparse"
          => /\ fnOut.res.raised = "None"
             /\ lower(fnOut.res.value.artist) = lower(fnIn.artist)
             /\ fnOut.res.value.kind = fnOut.first.kind
             /\ fnOut.res.value.id = fnIn.id

\* C10 witness: a journal URL with a prefix label that ends in a digit and
\* a mixed-case artist was parsed, formatted and parsed again.
C10_Witness ==
    /\ fnOut.op = "reparse"
    /\ fnIn.label = <<"j", "o", "u", "r", "n", "a", "l">>
    /\ fnIn.prefix = <<"x", "5">>
    /\ fnIn.artist = <<"B", "o">>
    /\ fnOut.url = Scheme \o <<"/", "/">> \o Host
                     \o <<"/", "b", "o", "/", "a", "r", "t", "/">> \o fnIn.id

(***************************************************************************)
(* comment.py: comment URLs                                                *)
(***************************************************************************)
CommentsPath == <<"/", "c", "o", "m", "m", "e", "n", "t", "s", "/">>

\* comment.URL_PATTERN matched at position i: three runs of digits
\* separated by "/"; each \d+ followed by "/" stops at the end of its run.
CommentMatchAt(str, i) ==
    LET n == Len(str)
        lit == Host \o CommentsPath
        g1 == i + Len(lit)
        e1 == RunEnd(str, g1, Digits)
        g2 == e1 + 2
        e2 == RunEnd(str, g2, Digits)
        g3 == e2 + 2
        e3 == RunEnd(str, g3, Digits)
    IN  IF /\ g1 <= n
           /\ SubSeq(str, i, g1 - 1) = lit
           /\ e1 >= g1 /\ e1 + 1 <= n /\ str[e1 + 1] = "/"
           /\ e2 >= g2 /\ e2 + 1 <= n /\ str[e2 + 1] = "/"
           /\ g3 <= n /\ e3 >= g3
          THEN [matched |-> TRUE,
                groups |-> <<SubSeq(str, g1, e1), SubSeq(str, g2, e2),
                             SubSeq(str, g3, e3)>>]
          ELSE [matched |-> FALSE, groups |-> <<>>]

\* comment.URL_PATTERN.search(url): the leftmost match.
comment_search(str) ==
    LET hits == {i \in 1..Len(str) : CommentMatchAt(str, i).matched}
    IN  IF hits = {} THEN [matched |-> FALSE, groups |-> <<>>]
        ELSE CommentMatchAt(str, CHOOSE i \in hits : \A j \in hits : i <= j)

\* Kind(value) on a string of characters.
KindOfChars(value) == Kind(IF value = <<"1">> THEN "1" ELSE "other")

NoURL ==
    [deviation |-> [class |-> "", kind |-> "", id |-> <<>>], comment_id |-> <<>>]

\* A from_str that takes the groups in the wrong order.
URL_from_str_swapped(url) ==
    LET m == comment_search(url)
        k == KindOfChars(m.groups[1])
    IN  IF ~m.matched
          THEN [raised |-> "ValueError", cause |-> "AttributeError", value |-> NoURL]
        ELSE IF k.raised = "ValueError"
          THEN [raised |-> "NotImplementedError", cause |-> "ValueError",
                value |-> NoURL]
        ELSE [raised |-> "None", cause |-> "None",
              value |-> [deviation |-> [class |-> "PartialDeviation",
                                        kind |-> k.member, id |-> m.groups[3]],
                         comment_id |-> m.groups[2]]]

\* URL.from_str
URL_from_str(url) ==
    LET m == comment_search(url)
        k == KindOfChars(m.groups[1])
    IN  IF ~m.matched
          THEN [raised |-> "ValueError", cause |-> "AttributeError", value |-> NoURL]
        ELSE IF k.raised = "ValueError"
          THEN [raised |-> "NotImplementedError", cause |-> "ValueError",
                value |-> NoURL]
        ELSE [raised |-> "None", cause |-> "None",
              value |-> [deviation |-> [class |-> "PartialDeviation",
                                        kind |-> k.member, id |-> m.groups[2]],
                         comment_id |-> m.groups[3]]]

(***************************************************************************)
(* SpecParse: strings of every shape are handed to the two URL parsers.    *)
(* A string is a host followed by up to four "/"-separated segments.       *)
(***************************************************************************)
HostChoices ==
    { Host,
      Scheme \o <<"/", "/">> \o Host,
      <<"w", "w", "w", ".", "d", "a", ".", "c", "o", "m">> }

Seg1Choices ==
    { <<"B", "o">>, <<"b", "-", "o">>, <<"b", "_", "o">>,
      <<"c", "o", "m", "m", "e", "n", "t", "s">> }

Seg2Choices ==
    { <<"a", "r", "t">>, <<"j", "o", "u", "r", "n", "a", "l">>,
      <<"g", "a", "l", "l", "e", "r", "y">>, <<"a", "r", "t", "-">>,
      <<"A", "r", "t">>, <<"1">>, <<"2">>, <<"1", "1">>, <<"0", "1">> }

Seg3Choices ==
    { <<"4">>, <<"x", "-", "4">>, <<"5", "-", "4">>, <<"x", "4">>,
      <<"4", "x">>, <<"x", "-">>, <<"x">> }

Seg4Choices == { <<"0">>, <<"0", "x">>, <<"x">> }

ParseInputs ==
    LET paths ==
            {<<h>> : h \in HostChoices}
            \cup {<<h, a>> : h \in HostChoices, a \in Seg1Choices}
            \cup {<<h, a, b>> : h \in HostChoices, a \in Seg1Choices,
                                b \in Seg2Choices}
            \cup {<<h, a, b, c>> : h \in HostChoices, a \in Seg1Choices,
                                   b \in Seg2Choices, c \in Seg3Choices}
            \cup {<<h, a, b, c, d>> : h \in HostChoices, a \in Seg1Choices,
                                      b \in Seg2Choices, c \in Seg3Choices,
                                      d \in Seg4Choices}
    IN  {[segs |-> q, url |-> join(q)] : q \in paths} 

InitParse ==
    /\ token = ""
    /\ session = "open"
    /\ releases = 0
    /\ phase = "scope"
    /\ exitExc = "None"
    /\ served = {}
    /\ calls = [c \in Tasks |-> Idle]
    /\ fnIn \in ParseInputs
    /\ fnOut = [op |-> "none"]

DeviationFromUrl ==
    /\ fnOut.op = "none"
    /\ fnOut' = [op |-> "Deviation.from_url", res |-> Deviation_from_url(fnIn.url)]
    /\ UNCHANGED <<client, fnIn>>

UrlFromStr ==
    /\ fnOut.op = "none"
    /\ fnOut' = [op |-> "URL.from_str", res |-> URL_from_str(fnIn.url)]
    /\ UNCHANGED <<client, fnIn>>

NextParse ==
    \/ DeviationFromUrl
    \/ UrlFromStr

SpecParse == InitParse /\ [][NextParse]_vars

(***************************************************************************)
(* Claims about the URL parsers.  The two grammars are stated here on      *)
(* their own, as the decompositions a string admits.                       *)
(***************************************************************************)
Slashes(str) == {j \in 1..Len(str) : str[j] = "/"}

HostAt(str, i) ==
    /\ i + Len(Host) <= Len(str)
    /\ SubSeq(str, i, i + Len(Host) - 1) = Host
    /\ str[i + Len(Host)] = "/"

\* [<label>-]<id> begins at p: some run of digits b..e starts at p, or
\* follows a "-" that has at least one character (no newline) before it.
HasIdFrom(str, p) ==
    \E e \in p..Len(str) : \E b \in p..e :
        /\ \A j \in b..e : str[j] \in Digits
        /\ \/ b = p
           \/ /\ b >= p + 2
              /\ str[b - 1] = "-"
              /\ \A j \in p..(b - 2) : str[j] # "\n"

\* The kind labels of the deviation URLs <host>/<artist>/<label>/[..-]<id>
\* that start at position i of str.
DeviationLabelsAt(str, i) ==
    IF ~HostAt(str, i) THEN {}
    ELSE LET a == i + Len(Host) + 1
         IN  {SubSeq(str, s1 + 1, s2 - 1) :
                <<s1, s2>> \in {q \in Slashes(str) \X Slashes(str) :
                    /\ q[1] > a
                    /\ \A j \in a..(q[1] - 1) : str[j] \in ArtistClass
                    /\ q[2] > q[1] + 1
                    /\ \A j \in (q[1] + 1)..(q[2] - 1) : str[j] \in KindClass
                    /\ HasIdFrom(str, q[2] + 1)}}

DeviationStarts(str) == {i \in 1..Len(str) : DeviationLabelsAt(str, i) # {}}

DeviationShaped(str) == DeviationStarts(str) # {}

\* The label of the first deviation URL in str.
DeviationLabels(str) ==
    DeviationLabelsAt(str, CHOOSE i \in DeviationStarts(str) :
                              \A j \in DeviationStarts(str) : i <= j)

KindNames == {<<"a", "r", "t">>, <<"j", "o", "u", "r", "n", "a", "l">>}

\* C11: a string that holds a deviation URL whose kind label is no Kind
\* name raises NotImplementedError, never ValueError; a string that holds
\* no deviation URL raises ValueError, never NotImplementedError.
C11_TwoTierFailure ==
    fnOut.op = "Deviation.from_url"
    => /\ (DeviationShaped(fnIn.url) /\ DeviationLabels(fnIn.url) \cap KindNames = {})
             => fnOut.res.raised = "NotImplementedError"
       /\ ~DeviationShaped(fnIn.url) => fnOut.res.raised = "ValueError"

\* C11 witness: a well-formed URL of kind "gallery" was refused as not
\* implemented.
C11_Witness ==
    /\ fnOut.op = "Deviation.from_url"
    /\ fnIn.segs = <<Host, <<"b", "-", "o">>,
                     <<"g", "a", "l", "l", "e", "r", "y">>, <<"5", "-", "4">>>>
    /\ fnOut.res.raised = "NotImplementedError"

\* The <k>, <d>, <c> of the comment URLs <host>/comments/<k>/<d>/<c>, all
\* digits, that start at position i of str (c as far as its digits go).
CommentPartsAt(str, i) ==
    IF ~(/\ i + Len(Host \o CommentsPath) <= Len(str)
         /\ SubSeq(str, i, i + Len(Host \o CommentsPath) - 1) = Host \o CommentsPath)
      THEN {}
    ELSE LET a == i + Len(Host \o CommentsPath)
             AllDigits(x, y) == x <= y /\ \A j \in x..y : str[j] \in Digits
         IN  {<<SubSeq(str, a, q[1] - 1), SubSeq(str, q[1] + 1, q[2] - 1),
                SubSeq(str, q[2] + 1, q[3])>> :
                q \in {r \in Slashes(str) \X Slashes(str) \X (1..Len(str)) :
                    /\ AllDigits(a, r[1] - 1)
                    /\ AllDigits(r[1] + 1, r[2] - 1)
                    /\ AllDigits(r[2] + 1, r[3])
                    /\ (r[3] = Len(str) \/ str[r[3] + 1] \notin Digits)}}

CommentStarts(str) == {i \in 1..Len(str) : CommentPartsAt(str, i) # {}}

CommentShaped(str) == CommentStarts(str) # {}

CommentParts(str) ==
    CHOOSE t \in CommentPartsAt(str, CHOOSE i \in CommentStarts(str) :
                                        \A j \in CommentStarts(str) : i <= j) : TRUE

\* C12: on a comment URL with kind code 1, from_str returns a URL whose
\* comment_id is c and whose deviation is a PartialDeviation of kind ART
\* and id d; any other kind code raises NotImplementedError; a string that
\* holds no comment URL (every deviation URL is one) raises ValueError.
C12_FromStrPartition ==
    fnOut.op = "URL.from_str"
    => /\ (CommentShaped(fnIn.url) /\ CommentParts(fnIn.url)[1] = <<"1">>)
             => /\ fnOut.res.raised = "None"
                /\ fnOut.res.value.comment_id = CommentParts(fnIn.url)[3]
                /\ fnOut.res.value.deviation =
                      [class |-> "PartialDeviation", kind |-> "ART",
                       id |-> CommentParts(fnIn.url)[2]]
       /\ (CommentShaped(fnIn.url) /\ CommentParts(fnIn.url)[1] # <<"1">>)
             => fnOut.res.raised = "NotImplementedError"
       /\ ~CommentShaped(fnIn.url) => fnOut.res.raised = "ValueError"
       /\ DeviationShaped(fnIn.url) => fnOut.res.raised = "ValueError"

\* C12 witness: the comment URL www.deviantart.com/comments/1/4/0 parsed.
C12_Witness ==
    /\ fnOut.op = "URL.from_str"
    /\ fnIn.segs = <<Host, <<"c", "o", "m", "m", "e", "n", "t", "s">>, <<"1">>,
                     <<"4">>, <<"0">>>>
    /\ fnOut.res.raised = "None"
    /\ fnOut.res.value.comment_id = <<"0">>
    /\ fnOut.res.value.deviation.id = <<"4">>

(***************************************************************************)
(* comment.py: Body.  A markup is the sequence of blocks of                *)
(* markup["document"]["content"]; a block has a type and a content, the    *)
(* sequence of its nodes; a node has a type, a text and a username         *)
(* (attrs.user.username).                                                  *)
(***************************************************************************)
MaxPars == 3

PARAGRAPH == "paragraph"

TEXT == "text"

MENTION == "da-mention"

TextNode(str) == [type |-> TEXT, text |-> str, username |-> <<>>]

MentionNode(name) == [type |-> MENTION, text |-> <<>>, username |-> name]

Block(type, nodes) == [type |-> type, content |-> nodes]

RECURSIVE Flatten(_)
Flatten(seqs) ==
    IF seqs = <<>> THEN <<>> ELSE Head(seqs) \o Flatten(Tail(seqs))

\* The entries of seq whose type is one of types, in order.
RECURSIVE OfType(_, _)
OfType(seq, types) ==
    IF seq = <<>> THEN <<>>
    ELSE IF Head(seq).type \in types THEN <<Head(seq)>> \o OfType(Tail(seq), types)
    ELSE OfType(Tail(seq), types)

\* sep.join(parts)
RECURSIVE str_join(_, _)
str_join(sep, parts) ==
    IF Len(parts) = 0 THEN <<>>
    ELSE IF Len(parts) = 1 THEN parts[1]
    ELSE parts[1] \o sep \o str_join(sep, Tail(parts))

\* Body.get_paragraphs
Body_get_paragraphs(markup) ==
    OfType(markup, {PARAGRAPH})

\* The nodes of the paragraphs, in document order.
ParagraphNodes(markup) ==
    LET pars == Body_get_paragraphs(markup)
    IN  Flatten([i \in 1..Len(pars) |-> pars[i].content])

\* A text property that leaves mentions out.
Body_text_no_mentions(markup) ==
    LET contents == OfType(ParagraphNodes(markup), {TEXT})
    IN  str_join(<<"\n">>, [i \in 1..Len(contents) |-> contents[i].text])

\* Body.text
Body_text(markup) ==
    LET contents == OfType(ParagraphNodes(markup), {TEXT, MENTION})
        lines == [i \in 1..Len(contents) |->
                    IF contents[i].type = TEXT THEN contents[i].text
                    ELSE contents[i].username]
    IN  str_join(<<"\n">>, lines)

\* Body.mentions
Body_mentions(markup) ==
    LET mentions == OfType(ParagraphNodes(markup), {MENTION})
    IN  [i \in 1..Len(mentions) |-> mentions[i].username]

(***************************************************************************)
(* SpecBody: text and mentions of markups of up to MaxPars blocks.         *)
(***************************************************************************)
BodyTexts == {<<"h", "i">>, <<"B", "o">>, <<"a", "\n", "b">>}

Usernames == {<<"B", "o">>, <<"a", "l">>}

\* Paragraphs with one text or one mention node, and blocks of other kinds.
OneNodeParagraphs ==
    {Block(PARAGRAPH, <<TextNode(t)>>) : t \in BodyTexts}
    \cup {Block(PARAGRAPH, <<MentionNode(u)>>) : u \in Usernames}

OtherBlocks ==
    { Block("heading", <<TextNode(<<"h", "i">>)>>),
      Block(PARAGRAPH, <<TextNode(<<"h", "i">>), MentionNode(<<"a", "l">>)>>),
      Block(PARAGRAPH, <<[type |-> "hardBreak", text |-> <<>>, username |-> <<>>]>>) }

InitBody ==
    /\ token = ""
    /\ session = "open"
    /\ releases = 0
    /\ phase = "scope"
    /\ exitExc = "None"
    /\ served = {}
    /\ calls = [c \in Tasks |-> Idle]
    /\ fnIn \in SeqsUpTo(OneNodeParagraphs \cup OtherBlocks, MaxPars)
    /\ fnOut = [op |-> "none"]

BodyText ==
    /\ fnOut.op = "none"
    /\ fnOut' = [op |-> "text", res |-> Body_text(fnIn)]
    /\ UNCHANGED <<client, fnIn>>

BodyMentions ==
    /\ fnOut.op = "none"
    /\ fnOut' = [op |-> "mentions", res |-> Body_mentions(fnIn)]
    /\ UNCHANGED <<client, fnIn>>

NextBody ==
    \/ BodyText
    \/ BodyMentions

SpecBody == InitBody /\ [][NextBody]_vars

(***************************************************************************)
(* Claims about Body                                                       *)
(***************************************************************************)
\* The markup is N paragraphs, each holding one text or one mention node.
OneNodeMarkup(markup) == \A i \in 1..Len(markup) : markup[i] \in OneNodeParagraphs

\* What paragraph i shows: its text, or the username it mentions.
Shown(markup, i) ==
    IF markup[i].content[1].type = TEXT THEN markup[i].content[1].text
    ELSE markup[i].content[1].username

\* Where paragraph i's string starts in the joined text, less one.
RECURSIVE Offset(_, _)
Offset(markup, i) ==
    IF i = 1 THEN 0
    ELSE Offset(markup, i - 1) + Len(Shown(markup, i - 1)) + 1

\* The pieces of str between newlines (str.split("\n")).
RECURSIVE Lines(_)
Lines(str) ==
    LET nl == {i \in 1..Len(str) : str[i] = "\n"}
        first == CHOOSE i \in nl : \A j \in nl : i <= j
    IN  IF nl = {} THEN <<str>>
        ELSE <<SubSeq(str, 1, first - 1)>> \o Lines(SubSeq(str, first + 1, Len(str)))

Contains(str, part) ==
    \E i \in 1..(Len(str) - Len(part) + 1) : SubSeq(str, i, i + Len(part) - 1) = part

NewlineFree(markup) ==
    \A i \in 1..Len(markup) : \A j \in 1..Len(Shown(markup, i)) :
        Shown(markup, i)[j] # "\n"

\* C13: for a markup of N one-node paragraphs, text is the N shown strings
\* joined by newlines in document order (its lines are exactly those
\* strings when none holds a newline), mentions yields the usernames of the
\* mention nodes in document order, and each of them occurs in text.
C13_TextAndMentions ==
    OneNodeMarkup(fnIn)
    => /\ fnOut.op = "text"
            => /\ Len(fnOut.res) =
                    IF Len(fnIn) = 0 THEN 0
                    ELSE Offset(fnIn, Len(fnIn)) + Len(Shown(fnIn, Len(fnIn)))
               /\ \A i \in 1..Len(fnIn) :
                    /\ SubSeq(fnOut.res, Offset(fnIn, i) + 1,
                              Offset(fnIn, i) + Len(Shown(fnIn, i))) = Shown(fnIn, i)
                    /\ i > 1 => fnOut.res[Offset(fnIn, i)] = "\n"
               /\ (NewlineFree(fnIn) /\ Len(fnIn) > 0)
                    => Lines(fnOut.res) = [i \in 1..Len(fnIn) |-> Shown(fnIn, i)]
       /\ fnOut.op = "mentions"
            => /\ LET at == {i \in 1..Len(fnIn) : fnIn[i].content[1].type = MENTION}
                  IN  /\ Len(fnOut.res) = Cardinality(at)
                      /\ \A k \in 1..Len(fnOut.res) :
                            \E i \in at :
                               /\ fnOut.res[k] = fnIn[i].content[1].username
                               /\ Cardinality({j \in at : j < i}) = k - 1
               /\ \A k \in 1..Len(fnOut.res) :
                     Contains(Body_text(fnIn), fnOut.res[k])

\* C13 witness: three paragraphs, a mention between two texts.
C13_Witness ==
    /\ fnOut.op = "text"
    /\ fnIn = <<Block(PARAGRAPH, <<TextNode(<<"h", "i">>)>>),
                Block(PARAGRAPH, <<MentionNode(<<"a", "l">>)>>),
                Block(PARAGRAPH, <<TextNode(<<"B", "o">>)>>)>>
    /\ fnOut.res = <<"h", "i", "\n", "a", "l", "\n", "B", "o">>

(***************************************************************************)
(* SpecToken: extract_token on every page of up to MaxInputs constructs.   *)
(***************************************************************************)
MaxInputs == 3

PageConstructs ==
    { Input(CSRF_KEY, "T1"), Input(CSRF_KEY, ""), Input(CSRF_KEY, NoValue),
      Input("username", "T2"), Input("username", NoValue), BadSection }

InitToken ==
    /\ token = ""
    /\ session = "open"
    /\ releases = 0
    /\ phase = "scope"
    /\ exitExc = "None"
    /\ served = {}
    /\ calls = [c \in Tasks |-> Idle]
    /\ fnIn \in SeqsUpTo(PageConstructs, MaxInputs)
    /\ fnOut = [op |-> "none"]

ExtractToken ==
    /\ fnOut.op = "none"
    /\ fnOut' = [op |-> "extract_token", res |-> extract_token(fnIn)]
    /\ UNCHANGED <<client, fnIn>>

NextToken == ExtractToken

SpecToken == InitToken /\ [][NextToken]_vars

\* The csrf_token inputs of the page, by position.
NamedCsrf(html) == {i \in 1..Len(html) : html[i].name = CSRF_KEY}

\* C14: a value extract_token returns is the value attribute of an input
\* named csrf_token, and it is returned whenever the page parses and has
\* such inputs, all with a value; when the page has no such input, or none
\* of them has a value attribute, or the markup cannot be parsed,
\* extract_token raises ValueError chained to its cause.
C14_ExtractToken ==
    fnOut.op = "extract_token"
    => LET named == NamedCsrf(fnIn)
           valued == {i \in named : fnIn[i].value # NoValue}
           parses == \A i \in 1..Len(fnIn) : fnIn[i] # BadSection
       IN  /\ fnOut.res.raised = "None"
                => \E i \in valued : fnOut.res.value = fnIn[i].value
           /\ (parses /\ named # {} /\ valued = named)
                => fnOut.res.raised = "None"
           /\ (valued = {} \/ ~parses)
                => /\ fnOut.res.raised = "ValueError"
                   /\ fnOut.res.cause # "None"

====
